---------------------------- MODULE Spec2Model ----------------------------
(***************************************************************************)
(* The calculator of src/calculator/calculator00.cpp: its Token_stream     *)
(* (one-token pushback over cin), its variable table and its recursive     *)
(* descent evaluator, run by the session loop calculate().                 *)
(*                                                                         *)
(* Characters are one-character strings, the input is a sequence of them.  *)
(* A double is modelled by an exact rational [n, d] (lit = ""), or by an   *)
(* opaque literal (lit # "") for the two built-in constants, whose digits  *)
(* do not fit TLC's integers; rounding is not modelled.  out holds the     *)
(* lines written: "= " value for a result, e.what() for an error; the      *)
(* prompt and a "= " not followed by a value are left out.                 *)
(***************************************************************************)
EXTENDS Integers, Sequences, FiniteSets, TLC

\* ------------------------------------------------------------------ bounds
\* Largest numerator or denominator a modelled double may take.
MaxAbs == 400
\* Deepest stack of pending calls below calculate().
MaxDepth == 11
\* Longest identifier the name family of inputs draws.
MaxNameLen == 2
\* Largest literal of the generated arithmetic expressions.
MaxLit == 2
\* Most statements in a generated session.
MaxStmts == 2
\* Longest prefix of unary signs the sign family of inputs draws.
MaxSigns == 3

\* ------------------------------------------------------------- characters
Digits == <<"0", "1", "2", "3", "4", "5", "6", "7", "8", "9">>

IsDigit(ch) == \E i \in 1..10 : Digits[i] = ch

DigitVal(ch) == (CHOOSE i \in 1..10 : Digits[i] = ch) - 1

Letters ==
    {"a", "b", "c", "d", "e", "f", "g", "h", "i", "j", "k", "l", "m", "n",
     "o", "p", "q", "r", "s", "t", "u", "v", "w", "x", "y", "z", "L"}

\* isalpha()
IsAlpha(ch) == ch \in Letters

\* a whitespace test that knows the blank only
IsSpace_blank(ch) == ch = " "

\* what operator>> skips: space, newline, tab
IsSpace(ch) == ch \in {" ", "\n", "\t"}

\* ----------------------------------------------------------------- doubles
Abs(i) == IF i < 0 THEN -i ELSE i

RECURSIVE GCD(_, _)
GCD(a, b) == IF b = 0 THEN a ELSE GCD(b, a % b)

\* the double n/d, in lowest terms
Rat(n, d) ==
    LET g == GCD(Abs(n), d)
    IN  [n |-> n \div g, d |-> d \div g, lit |-> ""]

Zero == Rat(0, 1)

\* a double known only by the literal that sets it
Lit(s) == [n |-> 0, d |-> 0, lit |-> s]

\* the value of an uninitialised Token::value: never read by the program
Indet == Lit("indeterminate")

IsRat(v) == v.lit = ""

InRange(v) == IsRat(v) /\ Abs(v.n) <= MaxAbs /\ v.d <= MaxAbs

IsZero(v) == IsRat(v) /\ v.n = 0

\* a unary minus that leaves its operand as it is
Neg_same(v) == v

Neg(v) == Rat(-v.n, v.d)

Add(a, b) == Rat(a.n * b.d + b.n * a.d, a.d * b.d)

Sub(a, b) == Rat(a.n * b.d - b.n * a.d, a.d * b.d)

Mul(a, b) == Rat(a.n * b.n, a.d * b.d)

\* what IEEE arithmetic gives for a division or a remainder by zero
Inf == Lit("inf")

NaN == Lit("nan")

\* a / b
Div(a, b) ==
    IF b.n = 0 THEN (IF a.n = 0 THEN NaN ELSE Inf)
    ELSE IF b.n < 0 THEN Rat(-(a.n * b.d), a.d * (-b.n))
    ELSE Rat(a.n * b.d, a.d * b.n)

\* the quotient of x by y rounded toward zero, y # 0
Trunc(x, y) ==
    LET q == Abs(x) \div Abs(y)
    IN  IF (x < 0) = (y < 0) THEN q ELSE -q

\* fmod(a, b): a - b * trunc(a / b)
Fmod(a, b) ==
    LET q == Trunc(a.n * b.d, a.d * b.n)
    IN  IF b.n = 0 THEN NaN ELSE Sub(a, Mul(b, Rat(q, 1)))

\* ------------------------------------------------------------------ tokens
number == "8"
quit == "q"
print == ";"
name == "a"
let == "L"
declkey == <<"l", "e", "t">>

\* Token(char k): value 0.0, empty name
TokenK(k) == [kind |-> k, value |-> Zero, name |-> <<>>]

\* Token(double v): kind number
TokenV(v) == [kind |-> number, value |-> v, name |-> <<>>]

\* Token(char ch, string n): value is left uninitialised
TokenN(k, n) == [kind |-> k, value |-> Indet, name |-> n]

NoError == [msg |-> "", arg |-> <<>>]

Error(m, a) == [msg |-> m, arg |-> a]


VARIABLES
    input,      \* the characters cin will deliver, fixed for the session
    cin,        \* [pos, fail]: next character to read, and !cin
    ts,         \* the Token_stream: [full, buffer]
    var_table,  \* vector<Variable>: a sequence of [name, value]
    stack,      \* the pending calls, calculate() at the bottom
    ret,        \* the double the last call returned
    caught,     \* the exception calculate() has caught, or NoError
    junkCh,     \* what an uninitialised char ch holds, once read ("" before)
    junkVal,    \* what an uninitialised double val holds, once read
    out,        \* what was written to cout and cerr, in order
    hist        \* history of the session, for stating properties

vars == <<input, cin, ts, var_table, stack, ret, caught, junkCh, junkVal, out, hist>>

\* -------------------------------------------------------------------- cin
RECURSIVE SkipSpace(_)
\* the first position from p on that holds no whitespace (Len + 1 if none)
SkipSpace(p) ==
    IF p <= Len(input) /\ IsSpace(input[p]) THEN SkipSpace(p + 1) ELSE p

\* cin >> ch: a failed extraction leaves ch as it was, uninitialised (jc)
ReadChar(c, jc) ==
    LET q == SkipSpace(c.pos)
    IN  IF c.fail THEN [ch |-> jc, ok |-> FALSE, cin |-> c]
        ELSE IF q > Len(input)
        THEN [ch |-> jc, ok |-> FALSE, cin |-> [pos |-> q, fail |-> TRUE]]
        ELSE [ch |-> input[q], ok |-> TRUE, cin |-> [pos |-> q + 1, fail |-> FALSE]]

RECURSIVE DigitsEnd(_)
\* the end (exclusive) of the run of digits starting at p
DigitsEnd(p) ==
    IF p <= Len(input) /\ IsDigit(input[p]) THEN DigitsEnd(p + 1) ELSE p

RECURSIVE DecVal(_, _, _)
\* the decimal number written by the digits of input[p .. e-1], after acc
DecVal(p, e, acc) ==
    IF p >= e THEN acc
    ELSE IF IsDigit(input[p]) THEN DecVal(p + 1, e, 10 * acc + DigitVal(input[p]))
    ELSE DecVal(p + 1, e, acc)

RECURSIVE Pow10(_)
Pow10(k) == IF k = 0 THEN 1 ELSE 10 * Pow10(k - 1)

\* cin >> val at position p of a good stream: digits, at most one '.', digits.
\* With no digit at all the extraction fails: val = 0 and failbit is set.
ReadDouble(p) ==
    LET e1 == DigitsEnd(p)
        dot == e1 <= Len(input) /\ input[e1] = "."
        e2 == IF dot THEN DigitsEnd(e1 + 1) ELSE e1
        nfrac == IF dot THEN e2 - e1 - 1 ELSE 0
        ndig == (e1 - p) + nfrac
    IN  IF ndig = 0
        THEN [val |-> Zero, cin |-> [pos |-> e2, fail |-> TRUE]]
        ELSE [val |-> Rat(DecVal(p, e2, 0), Pow10(nfrac)),
              cin |-> [pos |-> e2, fail |-> FALSE]]

RECURSIVE NameEnd_letters(_)
\* the loop of get() with isalpha(ch) alone: a digit ends the name
NameEnd_letters(p) ==
    IF p <= Len(input) /\ IsAlpha(input[p]) THEN NameEnd_letters(p + 1) ELSE p

RECURSIVE NameEnd(_)
\* the end (exclusive) of the run of letters and digits starting at p
NameEnd(p) ==
    IF p <= Len(input) /\ (IsAlpha(input[p]) \/ IsDigit(input[p]))
    THEN NameEnd(p + 1) ELSE p

\* the string s of get(): ch, then what the while loop appends; cin.get(ch)
\* failing at the end of input sets failbit, and cin.putback(ch) then fails
ReadName(p) ==
    LET e == NameEnd(p)
    IN  [s |-> SubSeq(input, p, e - 1),
         cin |-> [pos |-> e, fail |-> e > Len(input)]]

\* ----------------------------------------------------------- Token_stream
SingleChars == {print, quit, "=", "(", ")", "+", "-", "*", "/", "%"}

\* s == declkey ? Token{let} : Token{name, s}
NameToken(s) == IF s = declkey THEN TokenK(let) ELSE TokenN(name, s)

\* putback() without its test of full: the pending token is overwritten
putback_unchecked(t_s, t) == [ts |-> [full |-> TRUE, buffer |-> t], err |-> NoError]

\* void Token_stream::putback(Token t)
putback(t_s, t) ==
    IF t_s.full
    THEN [ts |-> t_s, err |-> Error("putback() into a full buffer", <<>>)]
    ELSE [ts |-> [full |-> TRUE, buffer |-> t], err |-> NoError]

\* the switch of get() on the character r.ch that cin >> ch gave
Classify(t_s, r, jv) ==
    IF r.ch \in SingleChars
    THEN [ts |-> t_s, cin |-> r.cin, tok |-> TokenK(r.ch), err |-> NoError]
    ELSE IF r.ch = "." \/ IsDigit(r.ch)
    THEN IF r.ok
         THEN LET d == ReadDouble(r.cin.pos - 1)
              IN  [ts |-> t_s, cin |-> d.cin, tok |-> TokenV(d.val), err |-> NoError]
         ELSE [ts |-> t_s, cin |-> r.cin, tok |-> TokenV(jv), err |-> NoError]
    ELSE IF IsAlpha(r.ch)
    THEN IF r.ok
         THEN LET n == ReadName(r.cin.pos - 1)
              IN  [ts |-> t_s, cin |-> n.cin, tok |-> NameToken(n.s), err |-> NoError]
         ELSE [ts |-> t_s, cin |-> r.cin, tok |-> NameToken(<<r.ch>>), err |-> NoError]
    ELSE [ts |-> t_s, cin |-> r.cin, tok |-> TokenK(""), err |-> Error("Bad token", <<>>)]

\* get() that returns the pending token without taking it out of the buffer
get_peek(t_s, c, jc, jv) ==
    IF t_s.full
    THEN [ts |-> t_s, cin |-> c, tok |-> t_s.buffer, err |-> NoError]
    ELSE Classify(t_s, ReadChar(c, jc), jv)

\* Token Token_stream::get(); jc and jv stand for the uninitialised ch and val
get(t_s, c, jc, jv) ==
    IF t_s.full
    THEN [ts |-> [t_s EXCEPT !.full = FALSE], cin |-> c, tok |-> t_s.buffer,
          err |-> NoError]
    ELSE Classify(t_s, ReadChar(c, jc), jv)

RECURSIVE FindChar(_, _)
\* the position of the first ch from p on (Len + 1 if none)
FindChar(p, ch) ==
    IF p > Len(input) \/ input[p] = ch THEN p ELSE FindChar(p + 1, ch)

\* void Token_stream::ignore(char c)
ignore(t_s, c, ch) ==
    IF t_s.full /\ ch = t_s.buffer.kind
    THEN [ts |-> [t_s EXCEPT !.full = FALSE], cin |-> c]
    ELSE LET q == FindChar(c.pos, ch)
         IN  [ts |-> [t_s EXCEPT !.full = FALSE],
              cin |-> IF c.fail THEN c
                      ELSE IF q > Len(input) THEN [pos |-> q, fail |-> TRUE]
                      ELSE [pos |-> q + 1, fail |-> FALSE]]

\* --------------------------------------------------------- variable table
Variable(n, v) == [name |-> n, value |-> v]

\* bool is_declared(string var)
is_declared(vt, var) == \E i \in 1..Len(vt) : vt[i].name = var

\* get_value() that returns the value of the first entry once s is found
get_value_first(vt, s) ==
    IF \E i \in 1..Len(vt) : vt[i].name = s
    THEN [val |-> vt[1].value, err |-> NoError]
    ELSE [val |-> Zero, err |-> Error("get: undefined variable ", s)]

\* double get_value(string s): the first entry named s
get_value(vt, s) ==
    IF \E i \in 1..Len(vt) : vt[i].name = s
    THEN [val |-> vt[CHOOSE i \in 1..Len(vt) :
                        /\ vt[i].name = s
                        /\ \A j \in 1..(i - 1) : vt[j].name # s].value,
          err |-> NoError]
    ELSE [val |-> Zero, err |-> Error("get: undefined variable ", s)]

\* void set_value(string s, double d): error() is inside the loop body, so the
\* loop never goes past the first entry, and an empty table raises nothing
set_value(vt, s, d) ==
    IF Len(vt) = 0 THEN [vt |-> vt, err |-> NoError]
    ELSE IF vt[1].name = s
    THEN [vt |-> [vt EXCEPT ![1].value = d], err |-> NoError]
    ELSE [vt |-> vt, err |-> Error("set: undefined variable ", s)]

\* define_name() without its test of is_declared()
define_name_unchecked(vt, var, val) ==
    [vt |-> Append(vt, Variable(var, val)), err |-> NoError]

\* define_name() that gives a name already declared its new value
define_name_overwrite(vt, var, val) ==
    IF is_declared(vt, var)
    THEN [vt |-> [i \in 1..Len(vt) |->
                    IF vt[i].name = var THEN Variable(var, val) ELSE vt[i]],
          err |-> NoError]
    ELSE [vt |-> Append(vt, Variable(var, val)), err |-> NoError]

\* double define_name(string var, double val)
define_name(vt, var, val) ==
    IF is_declared(vt, var)
    THEN [vt |-> vt, err |-> Error(" declared twice", var)]
    ELSE [vt |-> Append(vt, Variable(var, val)), err |-> NoError]

\* --------------------------------------------------------------- evaluator
\* One pending call: the function, where it stands, and its locals (left of
\* term() and expression(), t of calculate(), var_name of declaration()).
Frame(fn, pc) ==
    [fn |-> fn, pc |-> pc, left |-> Zero, t |-> TokenK(""), vname |-> <<>>]

Top == stack[Len(stack)]

At(fn, pc) == Len(stack) > 0 /\ Top.fn = fn /\ Top.pc = pc

\* the stack with its top frame replaced by the frames fs
Replace(fs) == SubSeq(stack, 1, Len(stack) - 1) \o fs

\* primary() is entered
CallPrimary == <<Frame("primary", "start")>>

\* term() is entered: it calls primary() first
CallTerm == <<Frame("term", "first")>> \o CallPrimary

\* expression() is entered: it calls term() first
CallExpression == <<Frame("expression", "first")>> \o CallTerm

\* an exception unwinds every call down to the handler of calculate()
Unwound == <<[stack[1] EXCEPT !.pc = "catch"]>>

\* ---- uninitialised reads
\* cin >> ch is about to fail, so get() will switch on an uninitialised ch
ReadFails == ~ts.full /\ (cin.fail \/ SkipSpace(cin.pos) > Len(input))

JunkChars == SingleChars \cup {"1", "x", "e", "@"}

JunkVals == {Zero, Rat(1, 1)}

\* The stale content of ch is drawn when first read and stays while the
\* stream stays failed (nothing writes ch again).
JunkChChoice ==
    IF junkCh # "" THEN {junkCh} ELSE IF ReadFails THEN JunkChars ELSE {""}

JunkValChoice(jc) ==
    IF junkVal # Indet THEN {junkVal}
    ELSE IF ReadFails /\ IsDigit(jc) THEN JunkVals ELSE {Indet}

\* ---- history
\* the last token get() made from cin: where the read began and ended, the
\* token, and whether cin >> ch gave a character (tokRead); for the round of
\* calculate()'s loop under way, the table it started from (vt0) and whether
\* its statement began with the keyword (isLet)
NoteGet(h, g) ==
    IF ts.full THEN h
    ELSE [h EXCEPT !.tokStart = cin.pos, !.tokEnd = g.cin.pos, !.tok = g.tok,
                   !.tokRead = ~ReadFails]

Fits(st) == Len(st) <= MaxDepth + 1

\* the next state, all variables but input
Becomes(t_s, c, vt, st, r, cg, jc, jv, o, h) ==
    /\ Fits(st)
    /\ ts' = t_s
    /\ cin' = c
    /\ var_table' = vt
    /\ stack' = st
    /\ ret' = r
    /\ caught' = cg
    /\ junkCh' = jc
    /\ junkVal' = jv
    /\ out' = o
    /\ hist' = h
    /\ UNCHANGED input

\* the state after a step that called get() with result g, went on to the
\* stack st with history h, or threw e when e # NoError
AfterGet(g, jc, jv, e, st, r, h) ==
    IF e # NoError
    THEN Becomes(g.ts, g.cin, var_table, Unwound, ret, e, jc, jv, out, h)
    ELSE Becomes(g.ts, g.cin, var_table, st, r, caught, jc, jv, out, h)

\* a throw that takes the variable table back to what main() made
Throws_forget(e, h) ==
    Becomes(ts, cin, <<Variable(<<"p", "i">>, Lit("3.1415926535")),
                       Variable(<<"e">>, Lit("2.7182818284"))>>,
            Unwound, ret, e, junkCh, junkVal, out, h)

\* the state after a step that read nothing and threw e
Throws(e, h) ==
    Becomes(ts, cin, var_table, Unwound, ret, e, junkCh, junkVal, out, h)

\* ---- calculate()
\* while (cin) ... Token t = ts.get();
calculate_loop ==
    /\ At("calculate", "loop")
    /\ \E jc \in JunkChChoice : \E jv \in JunkValChoice(jc) :
        LET g == get(ts, cin, jc, jv)
            h == [NoteGet(hist, g) EXCEPT !.last = "none", !.stmtStart = cin.pos,
                                          !.vt0 = var_table, !.isLet = FALSE]
        IN  IF cin.fail
            THEN Becomes(ts, cin, var_table, <<>>, ret, caught, junkCh, junkVal,
                         out, [hist EXCEPT !.last = "none", !.exit = "eof"])
            ELSE AfterGet(g, jc, jv, g.err,
                          Replace(<<[Top EXCEPT !.pc = "eat", !.t = g.tok]>>), ret, h)

\* while (t.kind == print) t = ts.get(); if (t.kind == quit) return;
\* ts.putback(t); ... statement()
calculate_eat ==
    /\ At("calculate", "eat")
    /\ \E jc \in JunkChChoice : \E jv \in JunkValChoice(jc) :
        LET g == get(ts, cin, jc, jv)
            pb == putback(ts, Top.t)
        IN  IF Top.t.kind = print
            THEN AfterGet(g, jc, jv, g.err, Replace(<<[Top EXCEPT !.t = g.tok]>>), ret,
                          [NoteGet(hist, g) EXCEPT !.stmtStart = cin.pos,
                                                   !.spin = 1 - hist.spin])
            ELSE IF Top.t.kind = quit
            THEN Becomes(ts, cin, var_table, <<>>, ret, caught, junkCh, junkVal,
                         out, [hist EXCEPT !.exit = "quit", !.spin = 0])
            ELSE IF pb.err # NoError
            THEN Throws(pb.err, [hist EXCEPT !.spin = 0])
            ELSE Becomes(pb.ts, cin, var_table,
                         Replace(<<[Top EXCEPT !.pc = "print"],
                                   Frame("statement", "start")>>),
                         ret, caught, junkCh, junkVal, out,
                         [hist EXCEPT !.stmtStart = hist.tokStart, !.spin = 0])

\* cout << result << statement() << '\n';
calculate_print ==
    /\ At("calculate", "print")
    /\ Becomes(ts, cin, var_table, Replace(<<[Top EXCEPT !.pc = "loop"]>>), ret,
               caught, junkCh, junkVal,
               Append(out, [kind |-> "result", val |-> ret, err |-> NoError]),
               [hist EXCEPT !.last = "result"])

\* void clean_up_mess()
clean_up_mess(t_s, c) == ignore(t_s, c, print)

\* catch (exception &e) { cerr << e.what() << '\n'; clean_up_mess(); }
calculate_catch ==
    /\ At("calculate", "catch")
    /\ LET r == clean_up_mess(ts, cin)
       IN  Becomes(r.ts, r.cin, var_table, Replace(<<[Top EXCEPT !.pc = "loop"]>>),
                   ret, NoError, junkCh, junkVal,
                   Append(out, [kind |-> "error", val |-> Zero, err |-> caught]),
                   [hist EXCEPT !.last = "error", !.failedAtError = cin.fail, !.spin = 0])

\* ---- statement() and declaration()
\* double statement(): the two calls are tail calls, their result is returned
statement ==
    /\ At("statement", "start")
    /\ \E jc \in JunkChChoice : \E jv \in JunkValChoice(jc) :
        LET g == get(ts, cin, jc, jv)
            pb == putback(g.ts, g.tok)
            h == [NoteGet(hist, g) EXCEPT !.isLet = g.err = NoError /\ g.tok.kind = let]
        IN  IF g.err # NoError \/ g.tok.kind = let
            THEN AfterGet(g, jc, jv, g.err,
                          Replace(<<Frame("declaration", "start")>>), ret, h)
            ELSE AfterGet([g EXCEPT !.ts = pb.ts], jc, jv, pb.err,
                          Replace(CallExpression), ret, h)

\* Token t = ts.get(); if (t.kind != name) error(...); string var_name = t.name;
declaration_name ==
    /\ At("declaration", "start")
    /\ \E jc \in JunkChChoice : \E jv \in JunkValChoice(jc) :
        LET g == get(ts, cin, jc, jv)
            e == IF g.err # NoError THEN g.err
                 ELSE IF g.tok.kind # name
                 THEN Error("name expected in declaration", <<>>)
                 ELSE NoError
        IN  AfterGet(g, jc, jv, e,
                     Replace(<<[Top EXCEPT !.pc = "eq", !.vname = g.tok.name]>>),
                     ret, NoteGet(hist, g))

\* Token t2 = ts.get(); if (t2.kind != '=') error(...); double d = expression();
declaration_eq ==
    /\ At("declaration", "eq")
    /\ \E jc \in JunkChChoice : \E jv \in JunkValChoice(jc) :
        LET g == get(ts, cin, jc, jv)
            e == IF g.err # NoError THEN g.err
                 ELSE IF g.tok.kind # "="
                 THEN Error("= missing in declartion of ", Top.vname)
                 ELSE NoError
        IN  AfterGet(g, jc, jv, e,
                     Replace(<<[Top EXCEPT !.pc = "def"]>> \o CallExpression),
                     ret, NoteGet(hist, g))

\* define_name(var_name, d); return d;
declaration_define ==
    /\ At("declaration", "def")
    /\ LET r == define_name(var_table, Top.vname, ret)
       IN  IF r.err # NoError
           THEN Throws(r.err, hist)
           ELSE Becomes(ts, cin, r.vt, Replace(<<>>), ret, caught, junkCh, junkVal,
                        out, [hist EXCEPT !.decl = Append(hist.decl,
                                                         Variable(Top.vname, ret))])

\* ---- primary()
\* Token t = ts.get(); switch (t.kind) ...
primary_start ==
    /\ At("primary", "start")
    /\ \E jc \in JunkChChoice : \E jv \in JunkValChoice(jc) :
        LET g == get(ts, cin, jc, jv)
            k == g.tok.kind
            gv == get_value(var_table, g.tok.name)
            e == IF g.err # NoError THEN g.err
                 ELSE IF k \in {"(", number, "-", "+"} THEN NoError
                 ELSE IF k = name THEN gv.err
                 ELSE Error("primary expected", <<>>)
            st == IF k = "(" THEN Replace(<<[Top EXCEPT !.pc = "paren"]>> \o CallExpression)
                  ELSE IF k = "-" THEN Replace(<<[Top EXCEPT !.pc = "neg"]>> \o CallPrimary)
                  ELSE IF k = "+" THEN Replace(<<[Top EXCEPT !.pc = "pos"]>> \o CallPrimary)
                  ELSE Replace(<<>>)
            r == IF k = number THEN g.tok.value ELSE IF k = name THEN gv.val ELSE ret
            h == [NoteGet(hist, g) EXCEPT
                    !.lookup = IF g.err = NoError /\ k = name THEN g.tok.name ELSE <<>>]
        IN  AfterGet(g, jc, jv, e, st, r, h)

\* double d = expression(); t = ts.get(); if (t.kind != ')') error(...); return d;
primary_close ==
    /\ At("primary", "paren")
    /\ \E jc \in JunkChChoice : \E jv \in JunkValChoice(jc) :
        LET g == get(ts, cin, jc, jv)
            e == IF g.err # NoError THEN g.err
                 ELSE IF g.tok.kind # ")" THEN Error("')' expected", <<>>)
                 ELSE NoError
        IN  AfterGet(g, jc, jv, e, Replace(<<>>), ret, NoteGet(hist, g))

\* return -primary(); and return primary();
primary_sign ==
    /\ \/ At("primary", "neg") /\ IsRat(ret)
       \/ At("primary", "pos")
    /\ Becomes(ts, cin, var_table, Replace(<<>>),
               IF Top.pc = "neg" THEN Neg(ret) ELSE ret,
               caught, junkCh, junkVal, out, hist)

\* ---- term() and expression()
\* term() with the test for zero in the '/' case only
TermError_divOnly(op, d) ==
    IF op = "/" /\ IsZero(d) THEN Error("divide by zero", <<>>) ELSE NoError

\* the error of term() for the operator op and the right operand d
TermError(op, d) ==
    IF op = "/" /\ IsZero(d) THEN Error("divide by zero", <<>>)
    ELSE IF op = "%" /\ IsZero(d) THEN Error("%:divide by zero", <<>>)
    ELSE NoError

\* left after left *= d, left /= d, left = fmod(left, d), or left = primary()
TermApply(op, left, d) ==
    IF op = "*" THEN Mul(left, d)
    ELSE IF op = "/" THEN Div(left, d)
    ELSE IF op = "%" THEN Fmod(left, d)
    ELSE d

\* expression() with the operands of '-' the wrong way round
ExpressionApply_swapped(op, left, d) ==
    IF op = "+" THEN Add(left, d)
    ELSE IF op = "-" THEN Sub(d, left)
    ELSE d

\* left after left += d, left -= d, or left = term()
ExpressionApply(op, left, d) ==
    IF op = "+" THEN Add(left, d)
    ELSE IF op = "-" THEN Sub(left, d)
    ELSE d

\* the operands of op are doubles the model can compute with
Computable(op, left, d) == op = "first" \/ (IsRat(left) /\ IsRat(d))

\* One round of term(): primary() has returned d for the pending operator
\* (Top.pc); fold it into left, read the next token and switch on it.
term ==
    /\ Len(stack) > 0 /\ Top.fn = "term"
    /\ Computable(Top.pc, Top.left, ret) \/ TermError(Top.pc, ret) # NoError
    /\ \E jc \in JunkChChoice : \E jv \in JunkValChoice(jc) :
        LET e1 == TermError(Top.pc, ret)
            left == TermApply(Top.pc, Top.left, ret)
            g == get(ts, cin, jc, jv)
            k == g.tok.kind
            pb == putback(g.ts, g.tok)
            more == g.err = NoError /\ k \in {"*", "/", "%"}
        IN  IF e1 # NoError
            THEN Throws(e1, hist)
            ELSE /\ InRange(left) \/ ~IsRat(left)
                 /\ IF g.err # NoError \/ more
                    THEN AfterGet(g, jc, jv, g.err,
                                  Replace(<<[Top EXCEPT !.pc = k, !.left = left]>>
                                          \o CallPrimary),
                                  ret, NoteGet(hist, g))
                    ELSE AfterGet([g EXCEPT !.ts = pb.ts], jc, jv, pb.err,
                                  Replace(<<>>), left, NoteGet(hist, g))

\* One round of expression(): term() has returned d for the pending operator.
expression ==
    /\ Len(stack) > 0 /\ Top.fn = "expression"
    /\ Computable(Top.pc, Top.left, ret)
    /\ \E jc \in JunkChChoice : \E jv \in JunkValChoice(jc) :
        LET left == ExpressionApply(Top.pc, Top.left, ret)
            g == get(ts, cin, jc, jv)
            k == g.tok.kind
            pb == putback(g.ts, g.tok)
            more == g.err = NoError /\ k \in {"+", "-"}
        IN  /\ InRange(left) \/ ~IsRat(left)
            /\ IF g.err # NoError \/ more
               THEN AfterGet(g, jc, jv, g.err,
                             Replace(<<[Top EXCEPT !.pc = k, !.left = left]>>
                                     \o CallTerm),
                             ret, NoteGet(hist, g))
               ELSE AfterGet([g EXCEPT !.ts = pb.ts], jc, jv, pb.err,
                             Replace(<<>>), left, NoteGet(hist, g))

\* ------------------------------------------------------------------ inputs
\* the statements sessions are made of: well-formed ones, and one for each
\* way a statement can fail
Statements ==
    {<<"2", ";">>,
     <<"x", ";">>,
     <<"e", ";">>,
     <<"p", "i", ";">>,
     <<"l", "e", "t", " ", "x", "=", "2", ";">>,
     <<"l", "e", "t", " ", "z", "=", "0", ";">>,
     <<"l", "e", "t", " ", "e", "=", "1", ";">>,
     <<"l", "e", "t", " ", "p", "i", "=", "2", ";">>,
     <<"l", "e", "t", " ", "x", "=", "1", "/", "0", ";">>,
     <<"l", "e", "t", " ", "x", ";">>,
     <<"l", "e", "t", " ", "x", " ", "1", ";">>,
     <<"l", "e", "t", ";">>,
     <<"l", "e", "t", " ", "2", ";">>,
     <<"@", ";">>,
     <<"2", "@", ";">>,
     <<"1", "+", ";">>,
     <<"(", "1", "+", "2", ";">>,
     <<")", ";">>,
     <<"3", "/", "0", ";">>,
     <<"3", "%", "0", ";">>,
     <<"3", "/", "z", ";">>,
     <<"3", "%", "-", "0", ";">>,
     <<"3", "/", "(", "1", "-", "1", ")", ";">>,
     <<".", ";">>,
     <<"1", ".", "5", " ", "2", ";">>}

RECURSIVE Concat(_)
\* the sequences of ss, one after the other
Concat(ss) == IF ss = <<>> THEN <<>> ELSE Head(ss) \o Concat(Tail(ss))

\* what a session can end with, short of a quit: the end of the input at
\* each place of the grammar
Tails ==
    {<<>>, <<";">>, <<" ">>, <<"2">>, <<"x">>, <<"2", "+">>, <<"2", "*">>, <<"(">>,
     <<"(", "2">>, <<"-">>, <<"l", "e", "t">>, <<"l", "e", "t", " ", "x">>,
     <<"l", "e", "t", " ", "x", "=">>, <<"l", "e", "t", " ", "x", "=", "2">>, <<"@">>}

\* sessions of up to MaxStmts statements, ended by a quit
QuitSessions ==
    {Concat(ss) \o <<quit>> :
        ss \in UNION {[1..n -> Statements] : n \in 0..MaxStmts}}

\* sessions of at most one statement, ended by the end of the input
EofSessions == {s \o tl : s \in Statements \cup {<<>>}, tl \in Tails}

\* ---- arithmetic expressions and their reference evaluation
Leaves == {<<"lit", k>> : k \in 0..MaxLit}

Unary == {"neg", "pos"}

MulOps == {"*", "/", "%"}

AddOps == {"+", "-"}

Exprs1 ==
    Leaves \cup {<<u, l>> : u \in Unary, l \in Leaves}
           \cup {<<op, l, r>> : op \in MulOps \cup AddOps, l \in Leaves, r \in Leaves}

Exprs ==
    Exprs1 \cup {<<u, e>> : u \in Unary, e \in Exprs1}
           \cup {<<op, e, l>> : op \in MulOps \cup AddOps, e \in Exprs1, l \in Leaves}
           \cup {<<op, l, e>> : op \in MulOps \cup AddOps, l \in Leaves, e \in Exprs1}

\* the grammar level of an expression: 1 Expression, 2 Term, 3 Primary
Level(e) == IF e[1] \in AddOps THEN 1 ELSE IF e[1] \in MulOps THEN 2 ELSE 3

RECURSIVE Render(_)
\* e written with the parentheses the grammar needs, and no others
Render(e) ==
    LET Wrap(x, lv) ==
            IF Level(x) >= lv THEN Render(x) ELSE <<"(">> \o Render(x) \o <<")">>
    IN  IF e[1] = "lit" THEN <<Digits[e[2] + 1]>>
        ELSE IF e[1] = "neg" THEN <<"-">> \o Wrap(e[2], 3)
        ELSE IF e[1] = "pos" THEN <<"+">> \o Wrap(e[2], 3)
        ELSE IF e[1] \in MulOps THEN Wrap(e[2], 2) \o <<e[1]>> \o Wrap(e[3], 3)
        ELSE Wrap(e[2], 1) \o <<e[1]>> \o Wrap(e[3], 2)

RECURSIVE RefEval(_)
\* The value of e over the integers, by the structure of e: <<TRUE, v>>, or
\* <<FALSE, 0>> when e divides by zero or a quotient is not exact.  The
\* remainder has the sign of the dividend.
RefEval(e) ==
    LET l == RefEval(e[2])
        r == RefEval(e[3])
        ok == l[1] /\ r[1]
    IN  IF e[1] = "lit" THEN <<TRUE, e[2]>>
        ELSE IF e[1] = "neg" THEN <<l[1], 0 - l[2]>>
        ELSE IF e[1] = "pos" THEN l
        ELSE IF ~ok THEN <<FALSE, 0>>
        ELSE IF e[1] = "+" THEN <<TRUE, l[2] + r[2]>>
        ELSE IF e[1] = "-" THEN <<TRUE, l[2] - r[2]>>
        ELSE IF e[1] = "*" THEN <<TRUE, l[2] * r[2]>>
        ELSE IF r[2] = 0 THEN <<FALSE, 0>>
        ELSE IF e[1] = "%"
        THEN <<TRUE, IF l[2] < 0 THEN 0 - ((0 - l[2]) % Abs(r[2])) ELSE l[2] % Abs(r[2])>>
        ELSE IF Abs(l[2]) % Abs(r[2]) # 0 THEN <<FALSE, 0>>
        ELSE <<TRUE, IF (l[2] < 0) = (r[2] < 0) THEN Abs(l[2]) \div Abs(r[2])
                     ELSE 0 - (Abs(l[2]) \div Abs(r[2]))>>

\* ---- names
NameLetters == {"l", "e", "t", "q", "x"}

NameChars == NameLetters \cup {"1"}

\* letter (letter | digit)*, up to MaxNameLen characters
Names ==
    {<<c>> \o r : c \in NameLetters,
                  r \in UNION {[1..n -> NameChars] : n \in 0..(MaxNameLen - 1)}}

\* ---- unary signs
\* the prefixes of up to MaxSigns unary signs
SignPrefixes == UNION {[1..n -> {"+", "-"}] : n \in 0..MaxSigns}

\* a primary of each kind: numbers, parenthesised expressions, a variable
SignPrimaries ==
    {<<"2">>, <<"0">>, <<"1", ".", "5">>, <<"(", "1", "-", "2", ")">>, <<"x">>,
     <<"(", "x", "*", "2", ")">>}

\* ---- what a session starts from
Given(i, f, r, n) == [input |-> i, family |-> f, ref |-> r, nm |-> n]

Givens ==
    {Given(i, "session", <<FALSE, 0>>, <<>>) : i \in QuitSessions \cup EofSessions}
    \cup {Given(Render(e) \o <<print, quit>>, "expr", RefEval(e), <<>>) : e \in Exprs}
    \cup {Given(<<"l", "e", "t", " ">> \o n \o <<"=", "1", ";">> \o n \o <<print, quit>>,
                "name", <<FALSE, 0>>, n) : n \in Names}
    \cup {Given(<<"l", "e", "t", " ", "x", "=", "3", ";">> \o s \o p \o <<print>>
                    \o p \o <<print, quit>>,
                "sign", <<FALSE, 0>>, s) : s \in SignPrefixes, p \in SignPrimaries}

PiValue == Lit("3.1415926535")

EValue == Lit("2.7182818284")

\* main(): define_name("pi", ...); define_name("e", ...); calculate();
main ==
    define_name(define_name(<<>>, <<"p", "i">>, PiValue).vt, <<"e">>, EValue).vt

\* main() has run up to its call of calculate(), cin holds one of the inputs gs
InitFrom(gs) ==
    \E gv \in gs :
        /\ input = gv.input
        /\ cin = [pos |-> 1, fail |-> FALSE]
        /\ ts = [full |-> FALSE, buffer |-> TokenV(Zero)]
        /\ var_table = main
        /\ stack = <<Frame("calculate", "loop")>>
        /\ ret = Zero
        /\ caught = NoError
        /\ junkCh = ""
        /\ junkVal = Indet
        /\ out = <<>>
        /\ hist = [family |-> gv.family, ref |-> gv.ref, nm |-> gv.nm,
                   tokStart |-> 1, stmtStart |-> 1, last |-> "none", exit |-> "",
                   spin |-> 0, failedAtError |-> FALSE, decl |-> <<>>,
                   lookup |-> <<>>, tokEnd |-> 1, tok |-> TokenK(""),
                   tokRead |-> FALSE, vt0 |-> main, isLet |-> FALSE]

Init == InitFrom(Givens)

\* the sessions that run into the end of the input
InitEof == InitFrom({gv \in Givens : gv.input \in EofSessions})

Next ==
    \/ calculate_loop
    \/ calculate_eat
    \/ calculate_print
    \/ calculate_catch
    \/ statement
    \/ declaration_name
    \/ declaration_eq
    \/ declaration_define
    \/ primary_start
    \/ primary_close
    \/ primary_sign
    \/ term
    \/ expression

Spec == Init /\ [][Next]_vars

\* ------------------------------------------------- the operations, one by one
\* A caller that uses the Token_stream and the variable table directly, one
\* call at a time in any order; hist records the last call: what it was given,
\* the state it found, and what it answered.
OpTokens ==
    {TokenK(print), TokenK(quit), TokenK("+"), TokenK(let), TokenV(Rat(3, 2)),
     TokenN(name, <<"x">>)}

OpInputs ==
    {<<>>,
     <<"2", ";", " ", "q", "1">>,
     <<" ", "x", "1", "=", ";", "2">>,
     <<"l", "e", "t", " ", ".", "5", ";", ";">>,
     <<".", ";", "2", ";">>,
     <<"@", "\n", "l", "e", "t", "2", " ", "(">>}

OpNames == {<<"e">>, <<"x">>, <<"y">>}

OpValues == {Zero, Rat(3, 2)}

OpTables == {<<>>, main}

Call(op, arg, res, err) == [op |-> op, arg |-> arg, res |-> res, err |-> err]

\* the Token_stream over some input, nothing read yet
InitStream ==
    /\ input \in OpInputs
    /\ cin = [pos |-> 1, fail |-> FALSE]
    /\ ts = [full |-> FALSE, buffer |-> TokenV(Zero)]
    /\ var_table = main
    /\ stack = <<>>
    /\ ret = Zero
    /\ caught = NoError
    /\ junkCh = ""
    /\ junkVal = Indet
    /\ out = <<>>
    /\ hist = Call("", <<>>, <<>>, NoError)

\* the variable table, empty or as main() leaves it
InitTable ==
    /\ input = <<>>
    /\ cin = [pos |-> 1, fail |-> FALSE]
    /\ ts = [full |-> FALSE, buffer |-> TokenV(Zero)]
    /\ var_table \in OpTables
    /\ stack = <<>>
    /\ ret = Zero
    /\ caught = NoError
    /\ junkCh = ""
    /\ junkVal = Indet
    /\ out = <<>>
    /\ hist = Call("", <<>>, <<>>, NoError)

op_putback ==
    \E t \in OpTokens :
        LET r == putback(ts, t)
        IN  Becomes(r.ts, cin, var_table, stack, ret, caught, junkCh, junkVal, out,
                    Call("putback", t, <<>>, r.err))

op_get ==
    \E jc \in JunkChChoice : \E jv \in JunkValChoice(jc) :
        LET g == get(ts, cin, jc, jv)
        IN  Becomes(g.ts, g.cin, var_table, stack, ret, caught, jc, jv, out,
                    Call("get", <<>>, g.tok, g.err))

op_ignore ==
    \E c \in {print, "+", "="} :
        LET r == ignore(ts, cin, c)
        IN  Becomes(r.ts, r.cin, var_table, stack, ret, caught, junkCh, junkVal, out,
                    Call("ignore", c, <<>>, NoError))

op_get_value ==
    \E n \in OpNames :
        LET r == get_value(var_table, n)
        IN  Becomes(ts, cin, var_table, stack, ret, caught, junkCh, junkVal, out,
                    Call("get_value", n, r.val, r.err))

op_set_value ==
    \E n \in OpNames : \E d \in OpValues :
        LET r == set_value(var_table, n, d)
        IN  Becomes(ts, cin, r.vt, stack, ret, caught, junkCh, junkVal, out,
                    Call("set_value", <<n, d>>, <<>>, r.err))

op_define_name ==
    \E n \in OpNames : \E d \in OpValues :
        LET r == define_name(var_table, n, d)
        IN  Becomes(ts, cin, r.vt, stack, ret, caught, junkCh, junkVal, out,
                    Call("define_name", <<n, d>>, d, r.err))

NextStream ==
    \/ op_putback
    \/ op_get
    \/ op_ignore

NextTable ==
    \/ op_get_value
    \/ op_set_value
    \/ op_define_name

SpecStream == InitStream /\ [][NextStream]_vars

SpecTable == InitTable /\ [][NextTable]_vars

\* ------------------------------------------------- whitespace between tokens
\* Sessions given as sequences of tokens, each token by its characters.
WsSessions ==
    {<< <<"l", "e", "t">>, <<"x">>, <<"=">>, <<"2">>, <<";">>,
        <<"x">>, <<"*">>, <<"(">>, <<"1">>, <<"+">>, <<"x">>, <<")">>, <<";">>, <<"q">> >>,
     << <<"l", "e", "t">>, <<"x">>, <<"=">>, <<"1", ".", "5">>, <<";">>,
        <<"-">>, <<"+">>, <<"x">>, <<"/">>, <<"0">>, <<";">>, <<"x">>, <<";">>, <<"q">> >>,
     << <<"l", "e", "t">>, <<"e">>, <<"=">>, <<"1">>, <<";">>, <<"y">>, <<";">>, <<"q">> >>,
     << <<"(">>, <<"2">>, <<";">>, <<"l", "e", "t">>, <<"2">>, <<";">>, <<"q">> >>,
     << <<"l", "e", "t">>, <<"x">>, <<"1">>, <<";">>, <<"2">>, <<"%">>, <<"2">>, <<";">>, <<"q">> >>,
     << <<"l", "e", "t">>, <<";">>, <<"3">>, <<";">>, <<"4">>, <<";">>, <<"q">> >>,
     << <<"2">>, <<"@">>, <<";">>, <<"7">>, <<";">>, <<"q">> >>,
     << <<"x", "1">>, <<";">>, <<"l", "e", "t">>, <<"x", "1">>, <<"=">>, <<".", "5">>, <<";">>,
        <<"x", "1">>, <<"-">>, <<"1">>, <<";">>, <<"q">> >>}

\* the runs of whitespace put between tokens; the first is no whitespace
WsSeps == << <<>>, <<" ">>, <<"\n">>, <<"\t", " ">>, <<" ", "\n", "\t">> >>

\* a character of a name or of a number
WordChar(ch) == IsAlpha(ch) \/ IsDigit(ch) \/ ch = "."

\* written with nothing between them, l and r would read as other tokens
NeedsGap(l, r) == WordChar(l[Len(l)]) /\ WordChar(r[1])

\* what is written before token i: the run the variant <<a, b>> picks for that
\* place, or one blank where no whitespace would join two tokens
WsBefore(toks, i, a, b) ==
    LET s == WsSeps[((a * i + b) % Len(WsSeps)) + 1]
    IN  IF s = <<>> /\ i > 1 /\ NeedsGap(toks[i - 1], toks[i]) THEN <<" ">> ELSE s

\* the tokens written out under the variant <<a, b>>: <<0, 0>> writes no
\* whitespace but where it is needed, <<0, 1>> one blank everywhere
Spaced(toks, a, b) ==
    Concat([i \in 1..Len(toks) |-> WsBefore(toks, i, a, b) \o toks[i]])

\* the history of a run over tokens: which run it is (round), the spacing the
\* second run will use (alt), and what the first run printed and declared
WsHistory(toks, alt, round, first) ==
    [family |-> "ws", ref |-> <<FALSE, 0>>, nm |-> <<>>,
     tokStart |-> 1, stmtStart |-> 1, last |-> "none", exit |-> "",
     spin |-> 0, failedAtError |-> FALSE, decl |-> <<>>,
     lookup |-> <<>>, tokEnd |-> 1, tok |-> TokenK(""), tokRead |-> FALSE,
     vt0 |-> main, isLet |-> FALSE,
     toks |-> toks, alt |-> alt, round |-> round, first |-> first]

\* the program starts on the tokens of a session written with whitespace
InitWs ==
    \E toks \in WsSessions : \E a \in 0..1 : \E b \in 0..(Len(WsSeps) - 1) :
      \E alt \in 0..1 :
        /\ input = Spaced(toks, a, b)
        /\ cin = [pos |-> 1, fail |-> FALSE]
        /\ ts = [full |-> FALSE, buffer |-> TokenV(Zero)]
        /\ var_table = main
        /\ stack = <<Frame("calculate", "loop")>>
        /\ ret = Zero
        /\ caught = NoError
        /\ junkCh = ""
        /\ junkVal = Indet
        /\ out = <<>>
        /\ hist = WsHistory(toks, alt, 1, [out |-> <<>>, vt |-> <<>>])

\* the program has ended; it is started again on the same tokens written
\* without whitespace (alt = 0) or with one blank between tokens (alt = 1)
restart ==
    /\ stack = <<>> /\ hist.round = 1
    /\ input' = Spaced(hist.toks, 0, hist.alt)
    /\ cin' = [pos |-> 1, fail |-> FALSE]
    /\ ts' = [full |-> FALSE, buffer |-> TokenV(Zero)]
    /\ var_table' = main
    /\ stack' = <<Frame("calculate", "loop")>>
    /\ ret' = Zero
    /\ caught' = NoError
    /\ junkCh' = ""
    /\ junkVal' = Indet
    /\ out' = <<>>
    /\ hist' = WsHistory(hist.toks, hist.alt, 2, [out |-> out, vt |-> var_table])

NextWs ==
    \/ Next
    \/ restart

SpecWs == InitWs /\ [][NextWs]_vars

\* ================================================================ properties
Result(v) == [kind |-> "result", val |-> v, err |-> NoError]

Done == stack = <<>>

\* the position after the first ';' from p on (the end of the input if none)
StatementEnd(p) ==
    IF \E i \in p..Len(input) : input[i] = print
    THEN 1 + CHOOSE i \in p..Len(input) :
                 input[i] = print /\ \A j \in p..(i - 1) : input[j] # print
    ELSE Len(input) + 1

\* a statement that is one number starts at p: digits, then ';'
NumberFollows(p) ==
    /\ StatementEnd(p) <= Len(input) + 1 /\ StatementEnd(p) > p + 1
    /\ input[StatementEnd(p) - 1] = print
    /\ \A j \in p..(StatementEnd(p) - 2) : IsDigit(input[j])

\* C1: after an error raised while the stream was still good, ignore(';')
\* leaves no token pending and the stream right after the ';' that ends the
\* failed statement, so that the statement after it (here a number and its
\* ';') is read whole.
C1_Resynchronized ==
    (/\ At("calculate", "loop") /\ hist.last = "error" /\ ~hist.failedAtError
     /\ NumberFollows(StatementEnd(hist.stmtStart)))
        => (~ts.full /\ cin.pos = StatementEnd(hist.stmtStart))

\* C2: a get() right after a putback(t) into an empty buffer returns t, reads
\* nothing from cin and leaves the buffer empty; a putback() into a full
\* buffer raises the overflow error and leaves the Token_stream as it was.
C2_PushbackOneDeep ==
    /\ [][(hist.op = "putback" /\ hist.err = NoError /\ hist'.op = "get")
            => (hist'.res = hist.arg /\ hist'.err = NoError /\ cin' = cin
                /\ ~ts'.full)]_vars
    /\ [][(ts.full /\ hist'.op = "putback")
            => (hist'.err = Error("putback() into a full buffer", <<>>)
                /\ ts' = ts)]_vars

\* a get() gave back the pushed-back name token with input left and none read
C2_Witness ==
    /\ hist.op = "get" /\ hist.res = TokenN(name, <<"x">>)
    /\ Len(input) > 0 /\ cin.pos = 1 /\ ~ts.full

\* the value a let statement of this session gave the name n
Declared(n) == {hist.decl[i].value : i \in {j \in 1..Len(hist.decl) : hist.decl[j].name = n}}

InTable(n) == n \in {var_table[i].name : i \in 1..Len(var_table)}

\* C3: once let n = v has succeeded, a primary n evaluates to v; another
\* let n = ... raises "declared twice"; and a primary that names no entry of
\* the table raises "undefined variable".
C3_DeclareThenUse ==
    /\ [][(At("primary", "start") /\ hist'.lookup # <<>>)
            => /\ \A v \in Declared(hist'.lookup) :
                      ret' = v /\ caught' = NoError /\ stack' = Replace(<<>>)
               /\ ~InTable(hist'.lookup)
                      => (caught' = Error("get: undefined variable ", hist'.lookup)
                          /\ stack' = Unwound)]_vars
    /\ [][(At("declaration", "def") /\ Declared(Top.vname) # {})
            => (caught' = Error(" declared twice", Top.vname)
                /\ stack' = Unwound /\ var_table' = var_table)]_vars

\* let x = 2; x;  has printed 2 twice
C3_Witness ==
    /\ hist.lookup = <<"x">> /\ Declared(<<"x">>) = {Rat(2, 1)}
    /\ out = <<Result(Rat(2, 1)), Result(Rat(2, 1))>>

IsAlnum(ch) == IsAlpha(ch) \/ IsDigit(ch)

\* where the last token read from cin begins, after the whitespace
TokBegin ==
    CHOOSE b \in hist.tokStart..Len(input) :
        ~IsSpace(input[b]) /\ \A j \in hist.tokStart..(b - 1) : IsSpace(input[j])

\* the end (exclusive) of the longest run of letters and digits from b on
RunEnd(b) ==
    CHOOSE k \in (b + 1)..(Len(input) + 1) :
        /\ k = Len(input) + 1 \/ ~IsAlnum(input[k])
        /\ \A j \in b..(k - 1) : IsAlnum(input[j])

\* the token the longest run from b on stands for, and where the read ends
ScansRun(b) ==
    LET run == SubSeq(input, b, RunEnd(b) - 1)
    IN  /\ hist.tok = IF run = declkey THEN TokenK(let) ELSE TokenN(name, run)
        /\ hist.tokEnd = RunEnd(b)

\* the session let nm = 1; nm; has printed 1 twice
NameDeclaredAndUsed == out = <<Result(Rat(1, 1)), Result(Rat(1, 1))>>

\* C4 as stated: a token that starts with any letter is the longest run of
\* letters and digits, the keyword if the run is let and else a name; and every
\* name but let can be declared and then looked up.
C4_AnyLetter ==
    /\ (hist.tokRead /\ IsAlpha(input[TokBegin])) => ScansRun(TokBegin)
    /\ (hist.family = "name" /\ Done /\ hist.nm # declkey) => NameDeclaredAndUsed

\* C4, amended: the same for every letter but 'q', which is always the quit
\* token of one character, and for every name that is not let, does not begin
\* with 'q' and is not in the table already.
C4_AnyLetterButQ ==
    /\ (hist.tokRead /\ IsAlpha(input[TokBegin]) /\ input[TokBegin] # quit)
            => ScansRun(TokBegin)
    /\ (/\ hist.family = "name" /\ Done /\ hist.nm # declkey
        /\ hist.nm[1] # quit /\ hist.nm \notin {<<"p", "i">>, <<"e">>})
            => NameDeclaredAndUsed

\* let x1 = 1; x1;  has printed 1 twice
C4_Witness ==
    hist.family = "name" /\ hist.nm = <<"x", "1">> /\ Done /\ NameDeclaredAndUsed

\* C5: a well-formed expression whose reference value exists (no division by
\* zero, every quotient exact) is printed as that value, and nothing else is.
C5_ReferenceValue ==
    (hist.family = "expr" /\ hist.ref[1])
        => /\ Len(out) >= 1 => out[1] = Result(Rat(hist.ref[2], 1))
           /\ Done => Len(out) = 1

\* 2+2*2 has printed 6
C5_Witness ==
    /\ hist.family = "expr" /\ hist.ref = <<TRUE, 6>>
    /\ input = <<"2", "+", "2", "*", "2", ";", "q">> /\ out = <<Result(Rat(6, 1))>>

\* C6: when the right operand of '/' or '%' in term() is zero, term() raises
\* the error of that operator and nothing is printed by that step; so no
\* division or remainder by zero is ever computed.
C6_ZeroDivisor ==
    [][(/\ Len(stack) > 0 /\ Top.fn = "term" /\ Top.pc \in {"/", "%"}
        /\ IsZero(ret))
          => /\ caught' = Error(IF Top.pc = "/" THEN "divide by zero"
                                ELSE "%:divide by zero", <<>>)
             /\ stack' = Unwound
             /\ out' = out]_vars

\* let z = 0; 3/z;  has reported the division by zero
C6_Witness ==
    /\ Len(out) = 2 /\ hist.last = "error"
    /\ out[2].err.msg = "divide by zero"
    /\ Len(hist.decl) = 1 /\ hist.decl[1] = Variable(<<"z">>, Zero)

\* C7: set_value(s, d) sets the value of the entry named s, wherever it is,
\* and changes nothing else; with no such entry it raises "undefined variable"
\* and changes nothing.
C7_SetValue ==
    [][hist'.op = "set_value"
        => LET s == hist'.arg[1]
               d == hist'.arg[2]
           IN  IF \E i \in 1..Len(var_table) : var_table[i].name = s
               THEN /\ hist'.err = NoError
                    /\ var_table' = [i \in 1..Len(var_table) |->
                                        IF var_table[i].name = s
                                        THEN Variable(s, d) ELSE var_table[i]]
               ELSE /\ hist'.err = Error("set: undefined variable ", s)
                    /\ var_table' = var_table]_vars

\* the sessions that run into the end of the input; the program always takes
\* its next step
FairSpec == InitEof /\ [][Next]_vars /\ WF_vars(Next)

\* the run is about to leave what the model explores: the recursion outgrows
\* MaxDepth, or a double is not one the model computes with
OutOfModel ==
    /\ Len(stack) > 0
    /\ \/ Len(stack) + 3 > MaxDepth + 1
       \/ At("primary", "neg") /\ ~IsRat(ret)
       \/ /\ Top.fn \in {"term", "expression"}
          /\ \/ ~Computable(Top.pc, Top.left, ret)
             \/ ~InRange(TermApply(Top.pc, Top.left, ret))
             \/ ~InRange(ExpressionApply(Top.pc, Top.left, ret))

\* C8: calculate() returns (unless the run leaves what the model explores).
C8_Terminates == <>(Done \/ OutOfModel)

\* a whole statement, a number and its ';', is still unread
UnreadStatement == \E p \in cin.pos..Len(input) : NumberFollows(p)

\* C9: calculate() returns only after a quit token, or with no statement left
\* unread in the input.
C9_LeavesOnQuitOrEnd ==
    Done => (hist.exit = "quit" \/ ~UnreadStatement)

\* C10: no two entries of the variable table have the same name.
C10_UniqueNames ==
    \A i, j \in 1..Len(var_table) :
        var_table[i].name = var_table[j].name => i = j

\* a second let x has been refused, x stays declared once
C10_Witness ==
    /\ Len(var_table) = 3 /\ var_table[3].name = <<"x">>
    /\ Len(out) = 2 /\ out[2].err = Error(" declared twice", <<"x">>)

PutbackOverflow == Error("putback() into a full buffer", <<>>)

\* C11: no putback() of calculate(), statement(), term() or expression() finds
\* the buffer full: the overflow error is never thrown and never reported,
\* in the iterations after an error and its recovery as in the others.
C11_NoPutbackOverflow ==
    /\ caught # PutbackOverflow
    /\ \A i \in 1..Len(out) : out[i].err # PutbackOverflow

\* let e = 1; has failed with the ';' pending in the buffer, ignore(';') has
\* discarded it, and calculate() has put back the first token of the next
\* statement
C11_Witness ==
    /\ out = <<[kind |-> "error", val |-> Zero, err |-> Error(" declared twice", <<"e">>)]>>
    /\ At("statement", "start") /\ ts.full /\ ts.buffer = TokenV(Rat(2, 1))

\* the built-in constants as the specification gives them
BuiltIns ==
    <<Variable(<<"p", "i">>, Lit("3.1415926535")), Variable(<<"e">>, Lit("2.7182818284"))>>

BuiltInNames == {BuiltIns[1].name, BuiltIns[2].name}

\* C12: pi and e are the first two entries of the table from the start of the
\* session to its end, with the values 3.1415926535 and 2.7182818284; a
\* primary pi or e evaluates to that value; and let pi = ... or let e = ...
\* raises "declared twice" and leaves the table as it was.
C12_BuiltInConstants ==
    /\ [](Len(var_table) >= 2 /\ SubSeq(var_table, 1, 2) = BuiltIns)
    /\ [][(At("primary", "start") /\ hist'.lookup \in BuiltInNames)
            => (/\ \E i \in 1..2 : BuiltIns[i] = Variable(hist'.lookup, ret')
                /\ caught' = NoError /\ stack' = Replace(<<>>))]_vars
    /\ [][(At("declaration", "def") /\ Top.vname \in BuiltInNames)
            => (/\ caught' = Error(" declared twice", Top.vname)
                /\ stack' = Unwound /\ var_table' = var_table)]_vars

\* pi; let pi = 2;  has printed the value of pi and then refused the let
C12_Witness ==
    /\ Len(out) = 2 /\ out[1] = Result(Lit("3.1415926535"))
    /\ out[2].err = Error(" declared twice", <<"p", "i">>)
    /\ hist.exit = "quit"

\* how many '-' the prefix s holds
Minuses(s) == Cardinality({i \in 1..Len(s) : s[i] = "-"})

\* C13: a primary p behind a prefix of unary signs evaluates to p negated once
\* for each '-' of the prefix: to p itself behind "--", "+" or any prefix with
\* an even number of '-', to 0 - p behind the others.  The session is
\* let x = 3; <prefix> p; p;  and the two values printed last are compared.
C13_SignPrefix ==
    (hist.family = "sign" /\ Done)
        => /\ Len(out) = 3
           /\ \A i \in 1..3 : out[i].kind = "result"
           /\ out[2].val = IF Minuses(hist.nm) % 2 = 0 THEN out[3].val
                            ELSE Sub(Zero, out[3].val)

\* let x = 3; --x; x;  has printed 3 three times
C13_Witness ==
    /\ hist.family = "sign" /\ Done /\ hist.nm = <<"-", "-">>
    /\ out = <<Result(Rat(3, 1)), Result(Rat(3, 1)), Result(Rat(3, 1))>>

\* C14: the tokens of a session written with any runs of blanks, tabs and
\* newlines between them give what the same tokens give written with no
\* whitespace (but where two tokens would join) or with one blank: the same
\* lines printed, values and errors, and the same variable table.
C14_WhitespaceFree ==
    (stack = <<>> /\ hist.round = 2)
        => (out = hist.first.out /\ var_table = hist.first.vt)

\* let x = 1.5; -+x/0; x;  written with blanks, newlines and tabs and then with
\* no whitespace: both runs have printed 1.5, the division by zero and 1.5
C14_Witness ==
    /\ stack = <<>> /\ hist.round = 2 /\ hist.alt = 0
    /\ Len(out) = 3 /\ out[2].err = Error("divide by zero", <<>>)
    /\ out[3] = Result(Rat(3, 2)) /\ hist.first.out = out
    /\ Len(var_table) = 3 /\ var_table[3] = Variable(<<"x">>, Rat(3, 2))

\* the position after the first c from p on (the end of the input if none)
AfterFirst(p, c) ==
    IF \E i \in p..Len(input) : input[i] = c
    THEN 1 + CHOOSE i \in p..Len(input) :
                 input[i] = c /\ \A j \in p..(i - 1) : input[j] # c
    ELSE Len(input) + 1

\* C15: ignore(c) with a token of kind c pending discards that token and reads
\* nothing; otherwise it discards any pending token and reads the input up to
\* and including the first c, or to its end if there is none, and no further.
\* The buffer is empty when it returns.
C15_IgnorePost ==
    [][hist'.op = "ignore"
        => /\ ~ts'.full
           /\ IF ts.full /\ ts.buffer.kind = hist'.arg
              THEN cin' = cin
              ELSE cin'.pos = AfterFirst(cin.pos, hist'.arg)]_vars

\* C16: the table changes only when a declaration succeeds.  While a
\* statement is evaluated and when it has failed, the table is the one the
\* statement started from; an expression statement that has succeeded left it
\* so; a let that has succeeded added one entry to its end, with the value the
\* statement prints.  No step removes an entry or changes one.
C16_GrowsByDeclaration ==
    /\ []((Len(stack) >= 2 \/ At("calculate", "catch")) => var_table = hist.vt0)
    /\ []((At("calculate", "print") /\ ~hist.isLet) => var_table = hist.vt0)
    /\ []((At("calculate", "print") /\ hist.isLet)
            => /\ Len(var_table) = Len(hist.vt0) + 1
               /\ SubSeq(var_table, 1, Len(hist.vt0)) = hist.vt0
               /\ var_table[Len(var_table)].value = ret
               /\ ~\E i \in 1..Len(hist.vt0) :
                      hist.vt0[i].name = var_table[Len(var_table)].name)
    /\ [][/\ Len(var_table') >= Len(var_table)
           /\ SubSeq(var_table', 1, Len(var_table)) = var_table]_vars

\* let x = 1/0; has failed and declared nothing, so that let x = 2; after it
\* has declared x
C16_Witness ==
    /\ Len(out) = 2 /\ out[1].err = Error("divide by zero", <<>>)
    /\ out[2] = Result(Rat(2, 1)) /\ hist.isLet
    /\ var_table = hist.vt0 \o <<Variable(<<"x">>, Rat(2, 1))>>

\* calculate() is about to read the first token of a statement
AtStatementStart ==
    /\ Len(stack) = 1 /\ Top.fn = "calculate"
    /\ Top.pc = "loop" \/ (Top.pc = "eat" /\ Top.t.kind = print)

\* C17: a get() that finds the input exhausted raises no bad-token error, and
\* when that happens between statements no error at all is raised, so that
\* the session reports nothing for the end of the input.
C17_EndIsNotAnError ==
    /\ [][ReadFails => caught' # Error("Bad token", <<>>)]_vars
    /\ [][(ReadFails /\ AtStatementStart) => (caught' = NoError /\ out' = out)]_vars

==========================================================================
